---- MODULE Spec2Model ----
(***************************************************************************)
(* Model of holoviews.core.data.image.ImageInterface: a stateless set of   *)
(* classmethods over a dataset that pairs a rank-2 array (row 0 = top of   *)
(* the bounding region) with a bounding region (l, b, r, t) and per-axis   *)
(* densities.                                                              *)
(*                                                                         *)
(* Coordinates are exact reals in the source.  Here they are integers in a *)
(* unit chosen so that every half cell width is a whole number: a dataset  *)
(* has cell widths xunit = 1/xdensity and yunit = 1/ydensity that are even *)
(* integers, and r = l + columns*xunit, t = b + rows*yunit, which is the   *)
(* relation between bounds, shape and density that the sheet coordinate    *)
(* system of a dataset maintains.  All divisions in the model are exact.   *)
(***************************************************************************)
EXTENDS Integers, Sequences, FiniteSets, TLC

(* ------------------------------ bounds -------------------------------- *)
MaxRows == 2
MaxCols == 2
MaxHalf == 2
Margin  == 1
MaxRank == 4

VARIABLES data, bounds, xunit, yunit, pc, op, args, result

vars == <<data, bounds, xunit, yunit, pc, op, args, result>>

(* ----------------------------- array helpers -------------------------- *)
NRows(m) == Len(m)

NCols(m) == IF Len(m) = 0 THEN 0 ELSE Len(m[1])

Abs(n) == IF n < 0 THEN -n ELSE n

\* numpy.flipud: reverse the order of the rows
Flipud(m) == [i \in 1..Len(m) |-> m[Len(m) + 1 - i]]

\* ndarray.flatten of a rank-2 array with the given shape: row-major order
Flatten(m, nr, nc) == [k \in 1..(nr * nc) |-> m[((k - 1) \div nc) + 1][((k - 1) % nc) + 1]]

\* numpy.linspace(start, stop, num): num samples, both end points included
Linspace(start, stop, num) ==
    [i \in 1..num |-> IF num = 1 THEN start
                      ELSE start + ((i - 1) * (stop - start)) \div (num - 1)]

\* numpy.meshgrid(xs, ys) with the default 'xy' indexing: two arrays of
\* shape (len(ys), len(xs)); the first repeats xs along every row, the
\* second repeats ys down every column
Meshgrid(xs, ys) ==
    << [i \in 1..Len(ys) |-> [j \in 1..Len(xs) |-> xs[j]]],
       [i \in 1..Len(ys) |-> [j \in 1..Len(xs) |-> ys[i]]] >>

(* ------------------------------- dataset ------------------------------ *)
dataset == [data |-> data, bounds |-> bounds, xunit |-> xunit, yunit |-> yunit]

\* BoundingBox.lbrt() accessors on a <<l, b, r, t>> tuple
Left(bb)   == bb[1]
Bottom(bb) == bb[2]
Right(bb)  == bb[3]
Top(bb)    == bb[4]

\* The array whose cell (i, j) holds its own row-major position; for a
\* 2x2 array this is [[1, 2], [3, 4]]
IndexArray(nr, nc) == [i \in 1..nr |-> [j \in 1..nc |-> (i - 1) * nc + j]]

\* the cell values of the arrays that mark a set of cells
CellValues == {0, 1}

Arrays(nr, nc) == [1..nr -> [1..nc -> CellValues]] \cup {IndexArray(nr, nc)}

NoResult == [kind |-> "none"]

NoArgs == [kind |-> "none"]

(* ------------------------------- values ------------------------------- *)
\* D1lin with the last sample left on the right edge instead of half a cell
\* inside it
D1lin_to_edge(ds) ==
    LET l == Left(ds.bounds)
        r == Right(ds.bounds)
        dim1 == NCols(ds.data)
        d1_half_unit == ((r - l) \div dim1) \div 2
    IN  Linspace(l + d1_half_unit, r, dim1)

\* values, lines 92-97: the unexpanded cell-centre coordinates of the columns
D1lin(ds) ==
    LET l == Left(ds.bounds)
        r == Right(ds.bounds)
        dim1 == NCols(ds.data)
        d1_half_unit == ((r - l) \div dim1) \div 2
    IN  Linspace(l + d1_half_unit, r - d1_half_unit, dim1)

\* values, lines 92-97: the unexpanded cell-centre coordinates of the rows
D2lin(ds) ==
    LET b == Bottom(ds.bounds)
        t == Top(ds.bounds)
        dim2 == NRows(ds.data)
        d2_half_unit == ((t - b) \div dim2) \div 2
    IN  Linspace(b + d2_half_unit, t - d2_half_unit, dim2)

\* values, lines 98-100: the expanded coordinate grid of key dimension dim_idx
ExpandedGrid(ds, dim_idx) == Meshgrid(D2lin(ds), D1lin(ds))[Abs(dim_idx - 1) + 1]

\* ImageInterface.values(dataset, dim, expanded, flat)
values(ds, dim_idx, expanded, flat) ==
    IF dim_idx \in {0, 1}
    THEN IF expanded
         THEN LET grid == ExpandedGrid(ds, dim_idx)
              IN  IF flat
                  THEN [kind |-> "vector", val |-> Flatten(grid, NRows(grid), NCols(grid))]
                  ELSE [kind |-> "grid", val |-> grid]
         ELSE [kind |-> "vector", val |-> IF dim_idx # 0 THEN D2lin(ds) ELSE D1lin(ds)]
    ELSE IF dim_idx = 2
    THEN LET flipped == Flipud(ds.data)
         IN  IF flat
             THEN [kind |-> "vector", val |-> Flatten(flipped, NRows(flipped), NCols(flipped))]
             ELSE [kind |-> "grid", val |-> flipped]
    ELSE [kind |-> "nonepair"]

(* ------------------------------ aggregate ----------------------------- *)
\* Dataset.get_dimension_index for the dimensions of an image: x, y, z
get_dimension_index(dim) == CASE dim = "x" -> 0 [] dim = "y" -> 1 [] dim = "z" -> 2 [] OTHER -> 3

\* dataset.kdims: exactly two key dimensions
KDims == <<"x", "y">>

\* dataset.vdims[0].alias
VDim == "z"

\* dataset.ndims: the number of key dimensions
NDims == Len(KDims)

InSeq(e, seq) == \E k \in 1..Len(seq) : seq[k] = e

RECURSIVE SumSeq(_)
SumSeq(seq) == IF Len(seq) = 0 THEN 0 ELSE seq[1] + SumSeq(Tail(seq))

RECURSIVE MaxSeq(_)
MaxSeq(seq) == IF Len(seq) = 1 THEN seq[1]
               ELSE LET rest == MaxSeq(Tail(seq)) IN IF seq[1] > rest THEN seq[1] ELSE rest

RECURSIVE MinSeq(_)
MinSeq(seq) == IF Len(seq) = 1 THEN seq[1]
               ELSE LET rest == MinSeq(Tail(seq)) IN IF seq[1] < rest THEN seq[1] ELSE rest

\* the reduction functions handed to aggregate (numpy.sum, numpy.max,
\* numpy.min, numpy.mean); a mean is the exact fraction <<numerator, denominator>>
Functions == {"sum", "max", "min", "mean"}

Reduce(function, seq) ==
    CASE function = "sum"  -> SumSeq(seq)
      [] function = "max"  -> MaxSeq(seq)
      [] function = "min"  -> MinSeq(seq)
      [] function = "mean" -> <<SumSeq(seq), Len(seq)>>

Column(m, j) == [i \in 1..NRows(m) |-> m[i][j]]

\* function(array, axis=axes): reduce over the listed array axes; axis 0 runs
\* down the rows, axis 1 along the columns, an empty tuple reduces nothing and
\* both axes reduce to a numpy scalar
ApplyAlongAxes(function, m, axes) ==
    IF Len(axes) = 0 THEN [kind |-> "grid", val |-> m]
    ELSE IF Len(axes) = 2
         THEN [kind |-> "scalar", val |-> Reduce(function, Flatten(m, NRows(m), NCols(m)))]
    ELSE IF axes[1] = 0
         THEN [kind |-> "vector", val |-> [j \in 1..NCols(m) |-> Reduce(function, Column(m, j))]]
    ELSE [kind |-> "vector", val |-> [i \in 1..NRows(m) |-> Reduce(function, m[i])]]

\* numpy.atleast_1d: a scalar becomes an array of shape (1,)
Atleast1d(v) == IF v.kind = "scalar" THEN [kind |-> "vector", val |-> <<v.val>>] ELSE v

\* numpy.isscalar: true of a scalar only, never of an array
IsScalar(v) == v.kind = "scalar"

\* AggregateAxes taking the index of the dropped key dimension as the array
\* axis, without reversing it
AggregateAxes_unreversed(kdims) ==
    LET dropped == SelectSeq(KDims, LAMBDA kdim : ~InSeq(kdim, kdims))
    IN  [k \in 1..Len(dropped) |-> get_dimension_index(dropped[k])]

\* aggregate, lines 198-199: the array axes to reduce over
AggregateAxes(kdims) ==
    LET dropped == SelectSeq(KDims, LAMBDA kdim : ~InSeq(kdim, kdims))
    IN  [k \in 1..Len(dropped) |-> NDims - get_dimension_index(dropped[k]) - 1]

\* ImageInterface.aggregate(dataset, kdims, function)
aggregate(ds, kdims, function) ==
    LET axes == AggregateAxes(kdims)
        reduced == Atleast1d(ApplyAlongAxes(function, ds.data, axes))
    IN  IF IsScalar(reduced) THEN reduced
        ELSE IF Len(axes) = 1
        THEN [kind |-> "mapping",
              entries |-> << <<kdims[1], values(ds, axes[1], FALSE, TRUE).val>>,
                             <<VDim, reduced.val>> >>]
        ELSE [kind |-> "nothing"]

(* ------------------------------- groupby ------------------------------ *)
Reverse(seq) == [k \in 1..Len(seq) |-> seq[Len(seq) + 1 - k]]

Min2(a, c) == IF a < c THEN a ELSE c

\* data[s] for s = (i, slice(None)) (a row) or (slice(None), i) (a column)
Sample(m, s) == IF s.axis = "row" THEN m[s.i + 1] ELSE Column(m, s.i + 1)

\* GroupbySingle without the reversal of the row samples
GroupbySingle_unreversed(ds, dim) ==
    LET didx == get_dimension_index(dim)
        coords == values(ds, didx, FALSE, TRUE).val
        xvals == values(ds, Abs(didx - 1), FALSE, TRUE).val
        count == IF Abs(didx - 1) = 0 THEN NRows(ds.data) ELSE NCols(ds.data)
        samples == [k \in 1..count |-> IF didx # 0 THEN [axis |-> "row", i |-> k - 1]
                                       ELSE [axis |-> "col", i |-> k - 1]]
        source == IF didx # 0 THEN ds.data ELSE Flipud(ds.data)
    IN  [k \in 1..Min2(Len(samples), Len(coords)) |->
            [key |-> <<coords[k]>>, xvals |-> xvals, vals |-> Sample(source, samples[k])]]

\* groupby, lines 170-182: grouping by a single key dimension
GroupbySingle(ds, dim) ==
    LET didx == get_dimension_index(dim)
        coords == values(ds, didx, FALSE, TRUE).val
        xvals == values(ds, Abs(didx - 1), FALSE, TRUE).val
        count == IF Abs(didx - 1) = 0 THEN NRows(ds.data) ELSE NCols(ds.data)
        plain == [k \in 1..count |-> IF didx # 0 THEN [axis |-> "row", i |-> k - 1]
                                     ELSE [axis |-> "col", i |-> k - 1]]
        samples == IF didx # 0 THEN Reverse(plain) ELSE plain
        source == IF didx # 0 THEN ds.data ELSE Flipud(ds.data)
    IN  [k \in 1..Min2(Len(samples), Len(coords)) |->
            [key |-> <<coords[k]>>, xvals |-> xvals, vals |-> Sample(source, samples[k])]]

\* groupby, lines 183-186: the expanded columns of every dimension, zipped
GroupbyMulti(ds) ==
    LET xs == values(ds, 0, TRUE, TRUE).val
        ys == values(ds, 1, TRUE, TRUE).val
        zs == values(ds, 2, TRUE, TRUE).val
    IN  [k \in 1..Min2(Len(xs), Min2(Len(ys), Len(zs))) |->
            [key |-> <<xs[k], ys[k]>>, xvals |-> <<>>, vals |-> <<zs[k]>>]]

\* ImageInterface.groupby(dataset, dim_names, container_type, group_type)
groupby(ds, dim_names, container_type) ==
    LET groups == IF Len(dim_names) = 1 THEN GroupbySingle(ds, dim_names[1])
                  ELSE GroupbyMulti(ds)
    IN  IF container_type = "NdMapping"
        THEN [kind |-> "groups", kdims |-> dim_names, groups |-> groups]
        ELSE [kind |-> "error", err |-> "NameError"]

(* -------------------------------- select ------------------------------ *)
\* An optional number (None or a value) is a sequence of length 0 or 1
None == <<>>

Some(v) == <<v>>

Max2(a, c) == IF a > c THEN a ELSE c

\* SheetCoordinateSystem.sheet2matrixidx(x, y): the (row, column) of the cell
\* the point falls in, row 0 at the top; no clamping to the array
sheet2matrixidx(ds, x, y) ==
    << (Top(ds.bounds) - y) \div ds.yunit, (x - Left(ds.bounds)) \div ds.xunit >>

\* SheetCoordinateSystem.closest_cell_center(x, y): the centre of that cell
closest_cell_center(ds, x, y) ==
    LET idx == sheet2matrixidx(ds, x, y)
    IN  << Left(ds.bounds) + idx[2] * ds.xunit + ds.xunit \div 2,
           Top(ds.bounds) - idx[1] * ds.yunit - ds.yunit \div 2 >>

\* BoundingBox(points=((l, b), (r, t))): inverted corners are malformed
BoundingBoxOk(l, b, r, t) == l <= r /\ b <= t

\* Slice(bounds, dataset): the index ranges <<r1, r2, c1, c2>> of the cells
\* covered by bounds, each edge moved to the nearest cell boundary
Slice(ds, bb) ==
    LET xu == ds.xunit
        yu == ds.yunit
        dl == Left(bb) - Left(ds.bounds)
        dr == Right(bb) - Left(ds.bounds)
        dt == Top(ds.bounds) - Top(bb)
        db == Top(ds.bounds) - Bottom(bb)
    IN  << -((yu - 2 * dt) \div (2 * yu)), (2 * db + yu) \div (2 * yu),
           -((xu - 2 * dl) \div (2 * xu)), (2 * dr + xu) \div (2 * xu) >>

\* a[i:j] on an axis of length n: the 1-based first and last position kept
PySliceLo(n, i) == (IF i < 0 THEN Max2(i + n, 0) ELSE Min2(i, n)) + 1

PySliceHi(n, j) == IF j < 0 THEN Max2(j + n, 0) ELSE Min2(j, n)

\* Slice.submatrix(matrix): matrix[r1:r2, c1:c2], with its shape
submatrix(slc, m) ==
    LET rlo == PySliceLo(NRows(m), slc[1])
        rhi == PySliceHi(NRows(m), slc[2])
        clo == PySliceLo(NCols(m), slc[3])
        chi == PySliceHi(NCols(m), slc[4])
        nr == Max2(rhi - rlo + 1, 0)
        nc == Max2(chi - clo + 1, 0)
    IN  [shape |-> <<nr, nc>>,
         val |-> [i \in 1..nr |-> [j \in 1..nc |-> m[rlo + i - 1][clo + j - 1]]]]

\* Slice.compute_bounds(dataset): the bounds of the whole cells of the slice
compute_bounds(ds, slc) ==
    << Left(ds.bounds) + slc[3] * ds.xunit, Top(ds.bounds) - slc[2] * ds.yunit,
       Left(ds.bounds) + slc[4] * ds.xunit, Top(ds.bounds) - slc[1] * ds.yunit >>

\* a[i] on an axis of length n: the 1-based position, 0 for an IndexError;
\* a negative index counts from the end
PyIndex(n, i) == IF 0 <= i /\ i < n THEN i + 1
                 ELSE IF -n <= i /\ i < 0 THEN n + i + 1
                 ELSE 0

IsSlice(el) == el.kind = "slice"

\* select, lines 117-118: a (start, stop) tuple becomes slice(start, stop)
ToSlice(sel) == IF sel.kind = "tuple"
                THEN [kind |-> "slice", start |-> sel.start, stop |-> sel.stop]
                ELSE sel

\* SelectCoords listing the key dimensions in reverse order
SelectCoords_reversed(selection) ==
    [k \in 1..Len(KDims) |->
        IF KDims[Len(KDims) + 1 - k] \in DOMAIN selection
        THEN ToSlice(selection[KDims[Len(KDims) + 1 - k]])
        ELSE [kind |-> "slice", start |-> None, stop |-> None]]

\* select, lines 119-120: the selection of every key dimension, in kdims
\* order; a key dimension without one is slice(None)
SelectCoords(selection) ==
    [k \in 1..Len(KDims) |->
        IF KDims[k] \in DOMAIN selection THEN ToSlice(selection[KDims[k]])
        ELSE [kind |-> "slice", start |-> None, stop |-> None]]

IndexError == [kind |-> "error", err |-> "IndexError"]

\* select, lines 121-122: both selections are scalars
SelectIndex(ds, coords) ==
    LET idx == sheet2matrixidx(ds, coords[1].v, coords[2].v)
        row == PyIndex(NRows(ds.data), idx[1])
        col == PyIndex(NCols(ds.data), idx[2])
    IN  IF row = 0 \/ col = 0 THEN IndexError
        ELSE [kind |-> "selected", data |-> [kind |-> "scalar", val |-> ds.data[row][col]],
              meta |-> <<>>]

\* select, lines 123-148: at least one selection is a range
SelectRange(ds, coords) ==
    LET xidx == coords[1]
        yidx == coords[2]
        xu == ds.xunit
        yu == ds.yunit
        l0 == Left(ds.bounds)
        b0 == Bottom(ds.bounds)
        r0 == Right(ds.bounds)
        t0 == Top(ds.bounds)
        l1 == IF IsSlice(xidx) /\ xidx.start # None THEN Max2(l0, xidx.start[1]) ELSE l0
        r1 == IF IsSlice(xidx) /\ xidx.stop # None THEN Min2(r0, xidx.stop[1]) ELSE r0
        b1 == IF IsSlice(yidx) /\ yidx.start # None THEN Max2(b0, yidx.start[1]) ELSE b0
        t1 == IF IsSlice(yidx) /\ yidx.stop # None THEN Min2(t0, yidx.stop[1]) ELSE t0
    IN  IF ~BoundingBoxOk(l1, b1, r1, t1) THEN [kind |-> "error", err |-> "BoundsError"]
        ELSE
        LET slc == Slice(ds, <<l1, b1, r1, t1>>)
            sub == submatrix(slc, ds.data)
            bb2 == compute_bounds(ds, slc)
            l2 == Left(bb2)
            b2 == Bottom(bb2)
            r2 == Right(bb2)
            t2 == Top(bb2)
        IN  IF ~IsSlice(xidx)
            THEN LET xc == closest_cell_center(ds, xidx.v, b2)[1]
                     x == PyIndex(sub.shape[2], sheet2matrixidx(ds, xidx.v, b2)[2])
                 IN  IF x = 0 THEN IndexError
                     ELSE [kind |-> "selected",
                           data |-> [kind |-> "array", shape |-> <<sub.shape[1], 1>>,
                                     val |-> [i \in 1..sub.shape[1] |-> <<sub.val[i][x]>>]],
                           meta |-> << <<"bounds", <<xc - xu \div 2, b2, xc + xu \div 2, t2>> >> >>]
            ELSE IF ~IsSlice(yidx)
            THEN LET yc == closest_cell_center(ds, l2, yidx.v)[2]
                     y == PyIndex(sub.shape[1], sheet2matrixidx(ds, l2, yidx.v)[1])
                 IN  IF y = 0 THEN IndexError
                     ELSE [kind |-> "selected",
                           data |-> [kind |-> "array", shape |-> <<1, sub.shape[2]>>,
                                     val |-> <<sub.val[y]>>],
                           meta |-> << <<"bounds", <<l2, yc - yu \div 2, r2, yc + yu \div 2>> >> >>]
            ELSE [kind |-> "selected",
                  data |-> [kind |-> "array", shape |-> sub.shape, val |-> sub.val],
                  meta |-> << <<"bounds", bb2>> >>]

\* ImageInterface.select(dataset, **selection)
select(ds, selection) ==
    LET coords == SelectCoords(selection)
    IN  IF ~(\E k \in 1..Len(coords) : IsSlice(coords[k]))
        THEN SelectIndex(ds, coords)
        ELSE SelectRange(ds, coords)

(* --------------------------------- init -------------------------------- *)
\* the aliases of the declared value dimensions
VDims(nvdims) == SubSeq(<<"z", "w">>, 1, nvdims)

\* TupleKeys giving every declared dimension a key however short the tuple
TupleKeys_padded(dimensions, n) == {dimensions[k] : k \in 1..Len(dimensions)}

\* init, lines 33-34: dict(zip(dimensions, data)) keeps as many keys as the
\* shorter of the two
TupleKeys(dimensions, n) == {dimensions[k] : k \in 1..Min2(n, Len(dimensions))}

\* numpy.dstack: arrays of rank below 3 are stacked into rank 3
DstackRank(rank) == Max2(rank, 3)

\* ImageInterface.init(eltype, data, kdims, vdims); input is a plain array of
\* some rank, another object, a tuple of n arrays or a mapping with some keys,
\* the value arrays having rank input.rank
init(input) ==
    LET vdims == VDims(input.nvdims)
        dimensions == KDims \o vdims
        keys == IF input.kind = "tuple" THEN TupleKeys(dimensions, input.n) ELSE input.keys
        isdict == input.kind \in {"tuple", "dict"}
        missing == \E k \in 1..Len(dimensions) : dimensions[k] \notin keys
        rank == IF ~isdict THEN input.rank
                ELSE IF Len(vdims) = 1 THEN input.rank ELSE DstackRank(input.rank)
        isarray == isdict \/ input.kind = "array"
    IN  IF isdict /\ missing THEN [kind |-> "error", err |-> "KeyError"]
        ELSE IF ~isarray \/ rank \notin {2, 3}
        THEN [kind |-> "error", err |-> "ValueError"]
        ELSE [kind |-> "init", ndim |-> rank, kdims |-> KDims, vdims |-> vdims, extra |-> <<>>]

(* ------------------------------ state machine ------------------------- *)
Init ==
    /\ \E nr \in 1..MaxRows, nc \in 1..MaxCols :
         /\ data \in Arrays(nr, nc)
         /\ \E hx \in 1..MaxHalf, hy \in 1..MaxHalf, l \in -1..0, b \in -1..0 :
              /\ xunit = 2 * hx
              /\ yunit = 2 * hy
              /\ bounds = <<l, b, l + nc * 2 * hx, b + nr * 2 * hy>>
    /\ pc = "ready"
    /\ op = "none"
    /\ args = NoArgs
    /\ result = NoResult

Values ==
    /\ pc = "ready"
    /\ \E dim_idx \in 0..3, expanded \in BOOLEAN, flat \in BOOLEAN :
         /\ args' = [dim |-> dim_idx, expanded |-> expanded, flat |-> flat]
         /\ result' = values(dataset, dim_idx, expanded, flat)
    /\ op' = "values"
    /\ pc' = "done"
    /\ UNCHANGED <<data, bounds, xunit, yunit>>

\* the caller takes the returned value; the dataset is left as it was
Return ==
    /\ pc = "done"
    /\ pc' = "ready"
    /\ op' = "none"
    /\ args' = NoArgs
    /\ result' = NoResult
    /\ UNCHANGED <<data, bounds, xunit, yunit>>

Aggregate ==
    /\ pc = "ready"
    /\ \E kdims \in {<<>>, <<"x">>, <<"y">>, <<"x", "y">>, <<"y", "x">>}, function \in Functions :
         /\ args' = [kdims |-> kdims, function |-> function]
         /\ result' = aggregate(dataset, kdims, function)
    /\ op' = "aggregate"
    /\ pc' = "done"
    /\ UNCHANGED <<data, bounds, xunit, yunit>>

Groupby ==
    /\ pc = "ready"
    /\ \E dim_names \in {<<"x">>, <<"y">>, <<"x", "y">>}, container_type \in {"NdMapping", "list"} :
         /\ args' = [dim_names |-> dim_names, container_type |-> container_type]
         /\ result' = groupby(dataset, dim_names, container_type)
    /\ op' = "groupby"
    /\ pc' = "done"
    /\ UNCHANGED <<data, bounds, xunit, yunit>>

\* the raw inputs handed to init
InitInputs ==
    [kind : {"array", "other"}, rank : 0..MaxRank, n : {0}, keys : {{}}, nvdims : 1..2]
    \cup [kind : {"tuple"}, rank : 0..MaxRank, n : 0..5, keys : {{}}, nvdims : 1..2]
    \cup [kind : {"dict"}, rank : 0..MaxRank, n : {0}, keys : SUBSET {"x", "y", "z", "w"}, nvdims : 1..2]

InitCall ==
    /\ pc = "ready"
    /\ \E input \in InitInputs :
         /\ args' = input
         /\ result' = init(input)
    /\ op' = "init"
    /\ pc' = "done"
    /\ UNCHANGED <<data, bounds, xunit, yunit>>

\* the coordinates a selection may name on an axis spanning lo..hi
SelCoords(lo, hi) == (lo - Margin)..(hi + Margin)

Optional(S) == {None} \cup {Some(v) : v \in S}

Selections(lo, hi) ==
    [kind : {"scalar"}, v : SelCoords(lo, hi)]
    \cup [kind : {"tuple"}, start : Optional(SelCoords(lo, hi)), stop : Optional(SelCoords(lo, hi))]

SelectionMaps ==
    LET xs == Selections(Left(bounds), Right(bounds))
        ys == Selections(Bottom(bounds), Top(bounds))
    IN  {<<>>} \cup {[d \in {"x"} |-> sx] : sx \in xs}
               \cup {[d \in {"y"} |-> sy] : sy \in ys}
               \cup {[d \in {"x", "y"} |-> IF d = "x" THEN p[1] ELSE p[2]] : p \in xs \X ys}

Select ==
    /\ pc = "ready"
    /\ \E selection \in SelectionMaps :
         /\ args' = selection
         /\ result' = select(dataset, selection)
    /\ op' = "select"
    /\ pc' = "done"
    /\ UNCHANGED <<data, bounds, xunit, yunit>>

Next == Values \/ Aggregate \/ Groupby \/ Return

Spec == Init /\ [][Next]_vars

\* select is followed on the arrays whose cells are all different
InitSelect ==
    /\ Init
    /\ data = IndexArray(NRows(data), NCols(data))
    /\ Left(bounds) = -1
    /\ Bottom(bounds) = 0
    /\ xunit = 2 \/ yunit = 2

NextSelect == Select \/ Return

SpecSelect == InitSelect /\ [][NextSelect]_vars

\* init takes raw input, whatever the dataset at hand
InitConstruct ==
    /\ Init
    /\ data = IndexArray(1, 1)
    /\ bounds = <<-1, 0, 1, 2>>

NextConstruct == InitCall \/ Return

SpecConstruct == InitConstruct /\ [][NextConstruct]_vars

(* ------------------------- reference definitions ---------------------- *)
Rows == NRows(data)

Cols == NCols(data)

\* the centre of column j (1-based, left to right)
CentreX(j) == Left(bounds) + (2 * j - 1) * (xunit \div 2)

\* the centre of row i (1-based); row 1 is the top of the bounding region
CentreY(i) == Top(bounds) - (2 * i - 1) * (yunit \div 2)

HasCell(x, y) == \E i \in 1..Rows, j \in 1..Cols : CentreX(j) = x /\ CentreY(i) = y

\* the array cell whose centre is (x, y)
CellAt(x, y) ==
    LET i == CHOOSE i \in 1..Rows : CentreY(i) = y
        j == CHOOSE j \in 1..Cols : CentreX(j) = x
    IN  data[i][j]

\* the column centres left to right and the row centres bottom to top
AscendingX == [j \in 1..Cols |-> CentreX(j)]

AscendingY == [i \in 1..Rows |-> CentreY(Rows + 1 - i)]

(* -------------------------------- claims ------------------------------ *)
\* C1: whenever select is called with at least one key-dimension selection
\* given as a (start, stop) range and returns bounds, the returned bounds lie
\* within the dataset's bounds: left >= l, bottom >= b, right <= r, top <= t.
C1_BoundsNeverExpand ==
    (/\ op = "select"
     /\ \E d \in DOMAIN args : args[d].kind = "tuple"
     /\ result.kind = "selected")
    => /\ result.meta # <<>>
       /\ LET bb == result.meta[1][2]
          IN  /\ Left(bb) >= Left(bounds)
              /\ Bottom(bb) >= Bottom(bounds)
              /\ Right(bb) <= Right(bounds)
              /\ Top(bb) <= Top(bounds)

\* the selection names the centre of cell (i, j) with two scalars
C2_IsCentreSelection(i, j) ==
    /\ op = "select"
    /\ DOMAIN args = {"x", "y"}
    /\ args["x"].kind = "scalar"
    /\ args["y"].kind = "scalar"
    /\ args["x"].v = CentreX(j)
    /\ args["y"].v = CentreY(i)

\* C2: select with the two scalar coordinates of the centre of cell (i, j)
\* returns the array entry at (i, j) and an empty metadata mapping.
C2_CentreRoundTrip ==
    \A i \in 1..Rows, j \in 1..Cols :
        C2_IsCentreSelection(i, j)
        => result = [kind |-> "selected", data |-> [kind |-> "scalar", val |-> data[i][j]],
                     meta |-> <<>>]

C2_Witness ==
    /\ Rows = 2
    /\ Cols = 2
    /\ C2_IsCentreSelection(2, 1)
    /\ result.kind = "selected"
    /\ result.data.val = 3

\* C3: aggregate with no retained key dimension returns the reduced scalar
\* itself: the reduction of all the cells of the array.
C3_FullReductionReturnsScalar ==
    (op = "aggregate" /\ args.kdims = <<>>)
    => /\ result.kind = "scalar"
       /\ result.val = Reduce(args.function, Flatten(data, Rows, Cols))

\* aggregate was called with exactly one retained key dimension
C4_OneRetained(dim) == op = "aggregate" /\ args.kdims = <<dim>>

\* C4: aggregate with exactly one retained key dimension returns a mapping of
\* two entries, the retained dimension's unexpanded coordinates and the
\* reduced values under the value dimension's name, the reduced values being
\* as many as the array's extent along the retained axis.
C4_ProfileShape ==
    \A dim \in {"x", "y"} :
        C4_OneRetained(dim)
        => /\ result.kind = "mapping"
           /\ Len(result.entries) = 2
           /\ result.entries[1][1] = dim
           /\ result.entries[1][2] = (IF dim = "x" THEN AscendingX ELSE AscendingY)
           /\ result.entries[2][1] = VDim
           /\ Len(result.entries[2][2]) = (IF dim = "x" THEN Cols ELSE Rows)

C4_Witness ==
    /\ Rows = 1
    /\ Cols = 2
    /\ C4_OneRetained("x")
    /\ result.kind = "mapping"
    /\ Len(result.entries[2][2]) = 2

\* the input lacks a key of a declared dimension
C5_MissingKey(input) ==
    \/ input.kind = "tuple" /\ input.n < 2 + input.nvdims
    \/ input.kind = "dict" /\ \E d \in {"x", "y"} \cup (IF input.nvdims = 1 THEN {"z"} ELSE {"z", "w"}) :
                                  d \notin input.keys

\* the data the input leads to is not an array of rank 2 or 3
C5_BadRank(input) ==
    /\ ~C5_MissingKey(input)
    /\ \/ input.kind = "other"
       \/ input.kind = "array" /\ input.rank \notin {2, 3}
       \/ input.kind \in {"tuple", "dict"} /\ input.nvdims = 1 /\ input.rank \notin {2, 3}
       \/ input.kind \in {"tuple", "dict"} /\ input.nvdims = 2 /\ input.rank > 3

\* C5 as stated: init fails with a value error on every invalid input, a
\* missing key or too short a tuple included.
C5_InvalidInputValueError ==
    (op = "init" /\ (C5_MissingKey(args) \/ C5_BadRank(args)))
    => result = [kind |-> "error", err |-> "ValueError"]

\* C5 as amended: init returns no result for an invalid input; it fails with
\* a value error when the data is not an array of rank 2 or 3, and with a key
\* error when a tuple or mapping lacks the key of a declared dimension.
C5_InvalidInputFails ==
    op = "init"
    => /\ C5_BadRank(args) => result = [kind |-> "error", err |-> "ValueError"]
       /\ C5_MissingKey(args) => result = [kind |-> "error", err |-> "KeyError"]

C5_Witness ==
    /\ op = "init"
    /\ args.kind = "dict"
    /\ args.nvdims = 1
    /\ args.keys = {"x", "y", "z"}
    /\ args.rank = 1
    /\ result.kind = "error"

\* values was called for key dimension dim_idx without expansion
C6_Unexpanded(dim_idx) == op = "values" /\ args.dim = dim_idx /\ ~args.expanded

\* count values, evenly spaced and ascending, strictly inside (lo, hi), the
\* first half a cell above lo and the last half a cell below hi
C6_CellCentres(seq, lo, hi, count) ==
    /\ Len(seq) = count
    /\ 2 * count * (seq[1] - lo) = hi - lo
    /\ 2 * count * (hi - seq[count]) = hi - lo
    /\ \A k \in 1..count : lo < seq[k] /\ seq[k] < hi
    /\ \A k \in 1..(count - 1) : /\ seq[k] < seq[k + 1]
                                 /\ count * (seq[k + 1] - seq[k]) = hi - lo

\* C6: values with expanded=False returns shape[1] cell centres in (l, r)
\* for key dimension 0 and shape[0] cell centres in (b, t) for key dimension 1.
C6_UnexpandedValues ==
    /\ C6_Unexpanded(0) => /\ result.kind = "vector"
                           /\ C6_CellCentres(result.val, Left(bounds), Right(bounds), Cols)
    /\ C6_Unexpanded(1) => /\ result.kind = "vector"
                           /\ C6_CellCentres(result.val, Bottom(bounds), Top(bounds), Rows)

C6_Witness ==
    /\ C6_Unexpanded(0)
    /\ Rows = 1
    /\ Cols = 2
    /\ xunit = 4
    /\ result.val = <<Left(bounds) + 2, Left(bounds) + 6>>

\* C7: values with expanded=True for key dimension 0 or 1 returns, when flat
\* is false, a grid of the data array's shape (rows, columns), and when flat
\* is true a vector of length rows*columns.
C7_ExpandedGridHasDataShape ==
    (op = "values" /\ args.dim \in {0, 1} /\ args.expanded)
    => IF args.flat
       THEN result.kind = "vector" /\ Len(result.val) = Rows * Cols
       ELSE /\ result.kind = "grid"
            /\ NRows(result.val) = Rows
            /\ NCols(result.val) = Cols

\* groupby was called with the single grouping dimension dim and a mapping
\* container
C8_SingleGroupby(dim) ==
    /\ op = "groupby"
    /\ args.dim_names = <<dim>>
    /\ args.container_type = "NdMapping"

\* C8: groupby with one grouping key dimension and a mapping container yields
\* one group per coordinate along that axis, in ascending order; the group at
\* coordinate c pairs the other axis's ascending coordinates with the cells
\* whose centres lie at c on the grouping axis.
C8_GroupsAreSlices ==
    /\ C8_SingleGroupby("x")
       => /\ result.kind = "groups"
          /\ Len(result.groups) = Cols
          /\ \A k \in 1..Cols :
                LET g == result.groups[k]
                IN  /\ g.key = <<AscendingX[k]>>
                    /\ g.xvals = AscendingY
                    /\ Len(g.vals) = Rows
                    /\ \A m \in 1..Rows : g.vals[m] = CellAt(g.key[1], g.xvals[m])
    /\ C8_SingleGroupby("y")
       => /\ result.kind = "groups"
          /\ Len(result.groups) = Rows
          /\ \A k \in 1..Rows :
                LET g == result.groups[k]
                IN  /\ g.key = <<AscendingY[k]>>
                    /\ g.xvals = AscendingX
                    /\ Len(g.vals) = Cols
                    /\ \A m \in 1..Cols : g.vals[m] = CellAt(g.xvals[m], g.key[1])

C8_Witness ==
    /\ C8_SingleGroupby("y")
    /\ data = <<<<1, 2>>, <<3, 4>>>>
    /\ result.kind = "groups"
    /\ result.groups[1].vals = <<3, 4>>

\* C9: the flattened expanded values of x, y and the value dimension have the
\* same length and, position by position, the value is the array cell whose
\* centre is (x[k], y[k]).
C9_ExpandedColumnsAligned ==
    (op = "values" /\ args.dim = 2 /\ args.expanded /\ args.flat)
    => LET xs == values(dataset, 0, TRUE, TRUE).val
           ys == values(dataset, 1, TRUE, TRUE).val
       IN  /\ Len(xs) = Len(result.val)
           /\ Len(ys) = Len(result.val)
           /\ \A k \in 1..Len(result.val) :
                 HasCell(xs[k], ys[k]) /\ result.val[k] = CellAt(xs[k], ys[k])

\* C10: in the mapping of aggregate with one retained key dimension, the i-th
\* reduced value is the reduction of the cells whose coordinate along the
\* retained axis is the i-th returned coordinate.
C10_ProfileAlignedWithCoordinates ==
    /\ (C4_OneRetained("x") /\ result.kind = "mapping")
       => \A k \in 1..Len(result.entries[2][2]) :
             \E j \in 1..Cols :
                /\ CentreX(j) = result.entries[1][2][k]
                /\ result.entries[2][2][k] = Reduce(args.function, Column(data, j))
    /\ (C4_OneRetained("y") /\ result.kind = "mapping")
       => \A k \in 1..Len(result.entries[2][2]) :
             \E i \in 1..Rows :
                /\ CentreY(i) = result.entries[1][2][k]
                /\ result.entries[2][2][k] = Reduce(args.function, data[i])

====
